---- MODULE Spec2Model ----
(***************************************************************************)
(* Model of the hand-gesture mouse controller: MouseGestureController      *)
(* (src/gesture_controller.py), the geometry helpers (src/utils.py) and    *)
(* the per-frame dispatch of the capture loop (src/main.py).               *)
(*                                                                         *)
(* Numbers.  The program computes in floats; the model computes in exact   *)
(* rationals, each kept as an integer over a fixed denominator:            *)
(*   - a normalized landmark coordinate c is the integer c * Unit;         *)
(*   - a ScrollHistory sample s is the integer s * HistUnit;               *)
(*   - a screen coordinate p (target, cursor) is the integer               *)
(*     p * CursorScale.                                                    *)
(* A Euclidean distance is kept as its square (see distance_2d).           *)
(* Float rounding is not modelled.                                         *)
(*                                                                         *)
(* Exceptions.  error names the exception that left update, "" when none   *)
(* did.  main has no except clause, so an exception ends the capture loop. *)
(***************************************************************************)
EXTENDS Integers, Sequences, FiniteSets, TLC

VARIABLES prev_cursor, scroll_history, left_click_latched, right_click_latched,
          current_mode, hand_result, last_hand, calls, nupdates,
          self_margin, error, probe

ctrl == <<prev_cursor, scroll_history, left_click_latched, right_click_latched,
          current_mode>>
vars == <<prev_cursor, scroll_history, left_click_latched, right_click_latched,
          current_mode, hand_result, last_hand, calls, nupdates,
          self_margin, error, probe>>

----------------------------------------------------------------------------
(* Bounds of the model. *)

\* update calls explored by Spec (gesture frames, one index-tip position)
MaxFrames == 6
\* update calls explored by SpecCursor (index tip moving over the frame)
MaxCursorFrames == 4
\* update calls explored by SpecConfig, SpecInput and SpecInjector
MaxErrFrames == 2
\* SpecClamp: bounds lo <= hi range over 0..ClampRange, values two beyond
ClampRange == 4

----------------------------------------------------------------------------
(* Configuration: the arguments main() passes to the constructor. *)

camera_width == 1280
camera_height == 720
margin == 120
scroll_sensitivity == 35
scroll_history_maxlen == 5
\* pyautogui.size() of the machine the controller runs on
screen_width == 1920
screen_height == 1080

\* denominator of the normalized landmark coordinates
Unit == 1000
\* pinch thresholds 0.035 and 0.04, in 1/Unit
left_pinch_threshold == 35
right_pinch_threshold == 40
\* smoothing_factor 0.25 as a fraction
smoothing_factor == [num |-> 1, den |-> 4]

RECURSIVE GCD(_, _)
GCD(a, b) == IF b = 0 THEN a ELSE GCD(b, a % b)

RECURSIVE Pow(_, _)
Pow(b, n) == IF n = 0 THEN 1 ELSE b * Pow(b, n - 1)

Max2(a, b) == IF a >= b THEN a ELSE b

\* denominator of a ScrollHistory sample: avg_y = (index_y + middle_y) / 2.0
HistUnit == 2 * Unit

\* denominator under which every mapped target is an integer:
\* (cam - min) / (max - min) * screen has the denominator
\* (max - min) / gcd(max - min, screen) on each axis
TargetDen ==
    ((camera_width - 2 * margin) \div GCD(camera_width - 2 * margin, screen_width))
  * ((camera_height - 2 * margin) \div GCD(camera_height - 2 * margin, screen_height))

\* each lerp divides by smoothing_factor.den once more
SmoothScale == Pow(smoothing_factor.den, Max2(MaxFrames, MaxCursorFrames))

\* denominator of the screen coordinates
CursorScale == TargetDen * SmoothScale

----------------------------------------------------------------------------
(* src/utils.py *)

min(a, b) == IF b < a THEN b ELSE a
max(a, b) == IF b > a THEN b ELSE a

\* clamp that forgets the lower bound
clamp_upper_only(value, min_value, max_value) == min(value, max_value)

\* clamp that forgets the upper bound
clamp_lower_only(value, min_value, max_value) == max(min_value, value)

clamp(value, min_value, max_value) == max(min_value, min(value, max_value))

\* lerp with the weights of start and end exchanged
lerp_swapped(start, end, t) == start + ((end - start) * (t.den - t.num)) \div t.den

\* start + (end - start) * t, t a fraction
lerp(start, end, t) == start + ((end - start) * t.num) \div t.den

\* math.hypot(x2 - x1, y2 - y1), kept as its square: the distance is the
\* non-negative root of .sq, and it is only ever compared with a threshold
distance_2d(x1, y1, x2, y2) ==
    [sq |-> (x2 - x1) * (x2 - x1) + (y2 - y1) * (y2 - y1)]

\* d < t, d > t, d >= t for a distance d and a threshold t >= 0
DistLt(d, t) == d.sq < t * t
DistGt(d, t) == d.sq > t * t
DistGe(d, t) == d.sq >= t * t

\* int(n / d): Python's int() truncates toward zero
int(n, d) == IF n >= 0 THEN n \div d ELSE -((-n) \div d)

abs(n) == IF n < 0 THEN -n ELSE n

----------------------------------------------------------------------------
(* src/hand_tracker.py: LandmarkPoint, HandData *)

LandmarkPoint(x, y) == [x |-> x, y |-> y]

\* the 21 landmarks of one hand; the controller reads 4, 6, 8, 10 and 12
HandData(thumb_tip, index_pip, index_tip, middle_pip, middle_tip) ==
    [landmarks |->
        [i \in 0..20 |->
            CASE i = 4 -> thumb_tip
              [] i = 6 -> index_pip
              [] i = 8 -> index_tip
              [] i = 10 -> middle_pip
              [] i = 12 -> middle_tip
              [] OTHER -> LandmarkPoint(0, 0)]]

----------------------------------------------------------------------------
(* The Input Injector: the pyautogui calls an update makes, in order. *)

MoveTo(x, y) == [op |-> "moveTo", x |-> x, y |-> y, button |-> "", amount |-> 0]
Click(b) == [op |-> "click", x |-> 0, y |-> 0, button |-> b, amount |-> 0]
Scroll(n) == [op |-> "scroll", x |-> 0, y |-> 0, button |-> "", amount |-> n]

----------------------------------------------------------------------------
(* MouseGestureController.__init__ *)

\* the arguments and results of clamp under SpecClamp; none in the
\* specifications of the controller
NoProbe == [stage |-> -1, v |-> 0, lo |-> 0, hi |-> 0, r1 |-> 0, r2 |-> 0]

\* the controller as __init__ leaves it, given movement_margin; the
\* constructor validates nothing and raises nothing
Constructed(movement_margin) ==
    /\ self_margin = movement_margin
    /\ prev_cursor = [x |-> (screen_width * CursorScale) \div 2,
                      y |-> (screen_height * CursorScale) \div 2]
    /\ scroll_history = <<>>
    /\ left_click_latched = FALSE
    /\ right_click_latched = FALSE
    /\ current_mode = "Idle"
    /\ hand_result = <<>>
    /\ last_hand = <<>>
    /\ calls = <<>>
    /\ nupdates = 0
    /\ error = ""

Init == Constructed(margin) /\ probe = NoProbe

----------------------------------------------------------------------------
(* MouseGestureController._move_cursor *)

\* one axis of the mapping: normalized finger coordinate -> screen target
MapAxis(finger, camera, screen) ==
    LET cam == (finger * camera) \div Unit
        min_v == self_margin
        max_v == camera - self_margin
        clamped == clamp(cam, min_v, max_v)
    IN (((clamped - min_v) * screen * TargetDen) \div (max_v - min_v)) * SmoothScale

target_x(finger_x) == MapAxis(finger_x, camera_width, screen_width)
target_y(finger_y) == MapAxis(finger_y, camera_height, screen_height)

\* the new prev_cursor; it is also the argument of pyautogui.moveTo
move_cursor(cursor, finger_x, finger_y) ==
    [x |-> lerp(cursor.x, target_x(finger_x), smoothing_factor),
     y |-> lerp(cursor.y, target_y(finger_y), smoothing_factor)]

----------------------------------------------------------------------------
(* MouseGestureController._handle_scroll *)

\* a plain list in place of the bounded deque
deque_append_unbounded(d, v) == Append(d, v)

\* deque(maxlen=5).append: a full deque drops its oldest element
deque_append(d, v) ==
    IF Len(d) = scroll_history_maxlen THEN Tail(d) \o <<v>> ELSE Append(d, v)

avg_y(index_y, middle_y) == ((index_y + middle_y) * HistUnit) \div (2 * Unit)

\* scroll amount rounded down (floor) in place of int()'s truncation
scroll_amount_floor(history) ==
    LET delta == history[Len(history) - 1] - history[Len(history)]
    IN (delta * scroll_sensitivity * 100) \div HistUnit

\* int(delta * self.scroll_sensitivity * 100), of a history of >= 2 samples
scroll_amount(history) ==
    LET delta == history[Len(history) - 1] - history[Len(history)]
    IN int(delta * scroll_sensitivity * 100, HistUnit)

\* noise filter that lets amounts of 1 and -1 through
scroll_calls_nonzero(history) ==
    IF Len(history) < 2 THEN <<>>
    ELSE IF abs(scroll_amount(history)) > 0
         THEN <<Scroll(scroll_amount(history))>>
         ELSE <<>>

\* the injector calls of _handle_scroll, given the history after the append
scroll_calls(history) ==
    IF Len(history) < 2 THEN <<>>
    ELSE IF abs(scroll_amount(history)) > 1
         THEN <<Scroll(scroll_amount(history))>>
         ELSE <<>>

----------------------------------------------------------------------------
(* MouseGestureController.update *)

thumb_tip(hand) == hand.landmarks[4]
index_tip(hand) == hand.landmarks[8]
index_pip(hand) == hand.landmarks[6]
middle_tip(hand) == hand.landmarks[12]
middle_pip(hand) == hand.landmarks[10]

index_extended(hand) == index_tip(hand).y < index_pip(hand).y
middle_extended(hand) == middle_tip(hand).y < middle_pip(hand).y

left_pinch_dist(hand) ==
    distance_2d(thumb_tip(hand).x, thumb_tip(hand).y,
                index_tip(hand).x, index_tip(hand).y)
right_pinch_dist(hand) ==
    distance_2d(thumb_tip(hand).x, thumb_tip(hand).y,
                middle_tip(hand).x, middle_tip(hand).y)

\* scroll gate that does not look at the left pinch
scroll_gate_ignoring_pinch(hand) ==
    index_extended(hand) /\ middle_extended(hand)

\* line 78: the condition under which _handle_scroll runs
scroll_gate(hand) ==
    /\ index_extended(hand)
    /\ middle_extended(hand)
    /\ DistGt(left_pinch_dist(hand), left_pinch_threshold)

\* level-triggered click: fires on every frame of a pinch
click_fires_unlatched(dist, threshold, latched) == DistLt(dist, threshold)

\* lines 85-90 and 93-98: one edge-triggered click
click_fires(dist, threshold, latched) == DistLt(dist, threshold) /\ ~latched

\* a latch released only strictly above the threshold
latch_next_strict(dist, threshold, latched) ==
    IF click_fires(dist, threshold, latched) THEN TRUE
    ELSE IF DistGt(dist, threshold) THEN FALSE
    ELSE latched

latch_next(dist, threshold, latched) ==
    IF click_fires(dist, threshold, latched) THEN TRUE
    ELSE IF DistGe(dist, threshold) THEN FALSE
    ELSE latched

left_click_fires(hand, latched) ==
    click_fires(left_pinch_dist(hand), left_pinch_threshold, latched)
\* right click suppressed while the left pinch is engaged
right_click_fires_unless_left(hand, latched) ==
    /\ click_fires(right_pinch_dist(hand), right_pinch_threshold, latched)
    /\ DistGe(left_pinch_dist(hand), left_pinch_threshold)

right_click_fires(hand, latched) ==
    click_fires(right_pinch_dist(hand), right_pinch_threshold, latched)

\* move condition that does not look at the fingers
move_mode_ignoring_fingers(hand) ==
    /\ DistGe(left_pinch_dist(hand), left_pinch_threshold)
    /\ DistGe(right_pinch_dist(hand), right_pinch_threshold)

\* lines 101-106
move_mode(hand) ==
    /\ DistGe(left_pinch_dist(hand), left_pinch_threshold)
    /\ DistGe(right_pinch_dist(hand), right_pinch_threshold)
    /\ ~(index_extended(hand) /\ middle_extended(hand))

\* the label of a left click assigned after that of a right click
mode_next_left_last(hand, mode, left_latched, right_latched) ==
    LET m1 == IF scroll_gate(hand) THEN "Scroll" ELSE mode
        m2 == IF right_click_fires(hand, right_latched) THEN "Right Click" ELSE m1
        m3 == IF left_click_fires(hand, left_latched) THEN "Left Click" ELSE m2
    IN IF move_mode(hand) THEN "Move" ELSE m3

\* the successive assignments to current_mode
mode_next(hand, mode, left_latched, right_latched) ==
    LET m1 == IF scroll_gate(hand) THEN "Scroll" ELSE mode
        m2 == IF left_click_fires(hand, left_latched) THEN "Left Click" ELSE m1
        m3 == IF right_click_fires(hand, right_latched) THEN "Right Click" ELSE m2
    IN IF move_mode(hand) THEN "Move" ELSE m3

\* cursor frozen while the left pinch is engaged
cursor_next_unless_pinch(hand, cursor) ==
    IF DistLt(left_pinch_dist(hand), left_pinch_threshold)
    THEN cursor
    ELSE move_cursor(cursor, index_tip(hand).x, index_tip(hand).y)

\* line 72: every update moves the cursor
cursor_next(hand, cursor) ==
    move_cursor(cursor, index_tip(hand).x, index_tip(hand).y)

\* lines 78-82
\* a history that is not cleared when the gate is false
history_next_kept(hand, history) ==
    IF scroll_gate(hand)
    THEN deque_append(history, avg_y(index_tip(hand).y, middle_tip(hand).y))
    ELSE history

history_next(hand, history) ==
    IF scroll_gate(hand)
    THEN deque_append(history, avg_y(index_tip(hand).y, middle_tip(hand).y))
    ELSE <<>>

\* a None in place of a LandmarkPoint
None == [none |-> TRUE]
IsNone(p) == "none" \in DOMAIN p

\* the exception raised before update has changed anything: lm[i] of a
\* short list (lines 61-65), .y of a None (lines 68-69), a division by
\* max - min = 0 (lines 128-129)
early_error(hand) ==
    IF ~({4, 6, 8, 10, 12} \subseteq DOMAIN hand.landmarks) THEN "IndexError"
    ELSE IF \/ IsNone(index_tip(hand)) \/ IsNone(index_pip(hand))
            \/ IsNone(middle_tip(hand)) \/ IsNone(middle_pip(hand))
         THEN "AttributeError"
    ELSE IF \/ camera_width - self_margin - self_margin = 0
            \/ camera_height - self_margin - self_margin = 0
         THEN "ZeroDivisionError"
    ELSE ""

update(hand) ==
    LET cursor == cursor_next(hand, prev_cursor)
        history == history_next(hand, scroll_history)
    IN /\ last_hand' = <<hand>>
       /\ nupdates' = nupdates + 1
       /\ UNCHANGED <<self_margin, probe>>
       /\ CASE early_error(hand) # "" ->
                 /\ error' = early_error(hand)
                 /\ calls' = <<>>
                 /\ UNCHANGED ctrl
            [] early_error(hand) = "" /\ IsNone(thumb_tip(hand)) ->
                 \* line 74 raises after _move_cursor has run
                 /\ error' = "AttributeError"
                 /\ prev_cursor' = cursor
                 /\ calls' = <<MoveTo(cursor.x, cursor.y)>>
                 /\ UNCHANGED <<scroll_history, left_click_latched,
                                right_click_latched, current_mode>>
            [] OTHER ->
                 /\ error' = ""
                 /\ prev_cursor' = cursor
                 /\ scroll_history' = history
                 /\ left_click_latched' =
                        latch_next(left_pinch_dist(hand), left_pinch_threshold,
                                   left_click_latched)
                 /\ right_click_latched' =
                        latch_next(right_pinch_dist(hand), right_pinch_threshold,
                                   right_click_latched)
                 /\ current_mode' =
                        mode_next(hand, current_mode, left_click_latched,
                                  right_click_latched)
                 /\ calls' = <<MoveTo(cursor.x, cursor.y)>>
                             \o (IF scroll_gate(hand) THEN scroll_calls(history) ELSE <<>>)
                             \o (IF left_click_fires(hand, left_click_latched)
                                 THEN <<Click("left")>> ELSE <<>>)
                             \o (IF right_click_fires(hand, right_click_latched)
                                 THEN <<Click("right")>> ELSE <<>>)

\* update with the injector call named by failing raising: the statements
\* after that call do not run. moveTo is line 136, scroll line 154, the
\* left click line 86, the right click line 94
update_injector_fails(hand, failing) ==
    LET cursor == cursor_next(hand, prev_cursor)
        history == history_next(hand, scroll_history)
        scrolls == IF scroll_gate(hand) THEN scroll_calls(history) ELSE <<>>
        left == left_click_fires(hand, left_click_latched)
        right == right_click_fires(hand, right_click_latched)
        m1 == IF scroll_gate(hand) THEN "Scroll" ELSE current_mode
        m2 == IF left THEN "Left Click" ELSE m1
    IN /\ early_error(hand) = ""
       /\ ~IsNone(thumb_tip(hand))
       /\ last_hand' = <<hand>>
       /\ nupdates' = nupdates + 1
       /\ UNCHANGED <<self_margin, probe>>
       /\ error' = "InjectorError"
       /\ prev_cursor' = cursor
       /\ CASE failing = "moveTo" ->
                 /\ calls' = <<>>
                 /\ UNCHANGED <<scroll_history, left_click_latched,
                                right_click_latched, current_mode>>
            [] failing = "scroll" ->
                 /\ scrolls # <<>>
                 /\ calls' = <<MoveTo(cursor.x, cursor.y)>>
                 /\ scroll_history' = history
                 /\ UNCHANGED <<left_click_latched, right_click_latched,
                                current_mode>>
            [] failing = "left" ->
                 /\ left
                 /\ calls' = <<MoveTo(cursor.x, cursor.y)>> \o scrolls
                 /\ scroll_history' = history
                 /\ current_mode' = m1
                 /\ UNCHANGED <<left_click_latched, right_click_latched>>
            [] failing = "right" ->
                 /\ right
                 /\ calls' = <<MoveTo(cursor.x, cursor.y)>> \o scrolls
                             \o (IF left THEN <<Click("left")>> ELSE <<>>)
                 /\ scroll_history' = history
                 /\ left_click_latched' =
                        latch_next(left_pinch_dist(hand), left_pinch_threshold,
                                   left_click_latched)
                 /\ current_mode' = m2
                 /\ UNCHANGED right_click_latched

----------------------------------------------------------------------------
(* main: one iteration of the capture loop, lines 98-102 *)

\* tracker.process found a hand: controller.update(hand_result)
HandFrame(frames, bound) ==
    \E hand \in frames :
        /\ error = ""
        /\ nupdates < bound
        /\ hand_result' = <<hand>>
        /\ update(hand)

\* the same, one of the injector calls of the update failing
HandFrameInjectorFails(frames, bound) ==
    \E hand \in frames, failing \in {"moveTo", "scroll", "left", "right"} :
        /\ error = ""
        /\ nupdates < bound
        /\ hand_result' = <<hand>>
        /\ update_injector_fails(hand, failing)

\* a frame without a hand that resets the controller
NoHandFrame_Reset ==
    /\ error = ""
    /\ hand_result' = <<>>
    /\ calls' = <<>>
    /\ prev_cursor' = [x |-> (screen_width * CursorScale) \div 2,
                       y |-> (screen_height * CursorScale) \div 2]
    /\ scroll_history' = <<>>
    /\ left_click_latched' = FALSE
    /\ right_click_latched' = FALSE
    /\ UNCHANGED <<current_mode, last_hand, nupdates, self_margin, error, probe>>

\* tracker.process returned None: update is not called
NoHandFrame ==
    /\ error = ""
    /\ hand_result' = <<>>
    /\ calls' = <<>>
    /\ UNCHANGED <<ctrl, last_hand, nupdates, self_margin, error, probe>>

----------------------------------------------------------------------------
(* The frames the Landmark Source delivers. *)

\* Spec: the index tip rests at (0.25, 0.3) while the thumb, the middle
\* finger and the two PIP joints move, so that every combination of pinch
\* (below, at, above each threshold) and finger extension occurs
GestureIndexTip == LandmarkPoint(250, 300)

GestureFrames ==
    { HandData(LandmarkPoint(250, ty), LandmarkPoint(250, ipy), GestureIndexTip,
               LandmarkPoint(mx, mpy), LandmarkPoint(mx, my)) :
        ty \in {320, 335, 350}, ipy \in {250, 500},
        mx \in {250, 290, 450}, my \in {350, 351, 354}, mpy \in {340, 550} }

\* SpecCursor: the index tip moves over and beyond the camera frame, in
\* four hand poses given as offsets from the index tip
CursorTips ==
    { LandmarkPoint(-100, 1200), LandmarkPoint(250, 300),
      LandmarkPoint(500, 500), LandmarkPoint(1100, -50) }

Poses ==
    { \* open hand, fingers curled: move
      [tdx |-> 0, tdy |-> 100, ipdy |-> -50, mdx |-> 100, mdy |-> 0, mpdy |-> -50],
      \* thumb-index pinch
      [tdx |-> 0, tdy |-> 20, ipdy |-> -50, mdx |-> 100, mdy |-> 0, mpdy |-> -50],
      \* thumb-middle pinch
      [tdx |-> 100, tdy |-> 10, ipdy |-> -50, mdx |-> 100, mdy |-> 0, mpdy |-> -50],
      \* index and middle up: scroll
      [tdx |-> 0, tdy |-> 100, ipdy |-> 200, mdx |-> 100, mdy |-> 50, mpdy |-> 200] }

CursorFrames ==
    { HandData(LandmarkPoint(t.x + p.tdx, t.y + p.tdy),
               LandmarkPoint(t.x, t.y + p.ipdy), t,
               LandmarkPoint(t.x + p.mdx, t.y + p.mdy + p.mpdy),
               LandmarkPoint(t.x + p.mdx, t.y + p.mdy)) :
        t \in CursorTips, p \in Poses }

\* SpecConfig: movement_margin values given to the constructor: that of
\* main(), and three that leave no active region (height 0, height
\* negative, width 0)
ConfigMargins == {margin, camera_height \div 2, 400, camera_width \div 2}

\* SpecInput: well-formed frames, and the same frames cut to n landmarks
\* or with a None at landmark i
Truncated(hand, n) == [landmarks |-> [i \in 0..(n - 1) |-> hand.landmarks[i]]]
WithNone(hand, k) ==
    [landmarks |-> [i \in 0..20 |-> IF i = k THEN None ELSE hand.landmarks[i]]]

InputBaseFrames ==
    { HandData(LandmarkPoint(250, ty), LandmarkPoint(250, 500), GestureIndexTip,
               LandmarkPoint(450, 550), LandmarkPoint(450, my)) :
        ty \in {320, 350}, my \in {350, 354} }

InputFrames ==
    InputBaseFrames
      \cup { Truncated(h, n) : h \in InputBaseFrames, n \in {0, 5, 13, 20} }
      \cup { WithNone(h, k) : h \in InputBaseFrames, k \in {0, 4, 8} }

----------------------------------------------------------------------------
(* src/utils.py clamp, applied to drawn inputs and again to its result *)

ClampOnce ==
    /\ probe.stage = 0
    /\ probe' = [probe EXCEPT !.stage = 1,
                              !.r1 = clamp(probe.v, probe.lo, probe.hi)]
    /\ UNCHANGED <<ctrl, hand_result, last_hand, calls, nupdates, self_margin, error>>

ClampAgain ==
    /\ probe.stage = 1
    /\ probe' = [probe EXCEPT !.stage = 2,
                              !.r2 = clamp(probe.r1, probe.lo, probe.hi)]
    /\ UNCHANGED <<ctrl, hand_result, last_hand, calls, nupdates, self_margin, error>>

----------------------------------------------------------------------------
(* Specifications *)

Next == HandFrame(GestureFrames, MaxFrames) \/ NoHandFrame

Spec == Init /\ [][Next]_vars

NextCursor == HandFrame(CursorFrames, MaxCursorFrames) \/ NoHandFrame

SpecCursor == Init /\ [][NextCursor]_vars

\* the constructor given any of ConfigMargins
InitConfig == (\E m \in ConfigMargins : Constructed(m)) /\ probe = NoProbe

NextConfig == HandFrame(CursorFrames, MaxErrFrames) \/ NoHandFrame

SpecConfig == InitConfig /\ [][NextConfig]_vars

\* the Landmark Source delivering malformed frames too
NextInput == HandFrame(InputFrames, MaxErrFrames) \/ NoHandFrame

SpecInput == Init /\ [][NextInput]_vars

\* the Input Injector failing in any of its calls
NextInjector ==
    \/ HandFrame(GestureFrames, MaxErrFrames)
    \/ HandFrameInjectorFails(GestureFrames, MaxErrFrames)
    \/ NoHandFrame

SpecInjector == Init /\ [][NextInjector]_vars

\* clamp on every v, lo <= hi of the range
InitClamp ==
    /\ Constructed(margin)
    /\ probe \in { [stage |-> 0, v |-> v, lo |-> lo, hi |-> hi, r1 |-> 0, r2 |-> 0] :
                     v \in (-2)..(ClampRange + 2),
                     lo \in 0..ClampRange, hi \in 0..ClampRange }
    /\ probe.lo <= probe.hi

NextClamp == ClampOnce \/ ClampAgain

SpecClamp == InitClamp /\ [][NextClamp]_vars

----------------------------------------------------------------------------
(* Vocabulary of the properties *)

\* the capture-loop iteration that led to this state called update
UpdateRan == hand_result # <<>>

\* the frame of the most recent update call (defined once nupdates > 0)
hand == last_hand[1]

LeftBelow(h) == left_pinch_dist(h).sq < left_pinch_threshold * left_pinch_threshold
RightBelow(h) == right_pinch_dist(h).sq < right_pinch_threshold * right_pinch_threshold

BothExtended(h) ==
    /\ h.landmarks[8].y < h.landmarks[6].y
    /\ h.landmarks[12].y < h.landmarks[10].y

\* section 4.2 step 4: both fingers extended and left pinch above its threshold
Gate(h) ==
    /\ BothExtended(h)
    /\ left_pinch_dist(h).sq > left_pinch_threshold * left_pinch_threshold

Count(op, button) ==
    Cardinality({i \in DOMAIN calls : calls[i].op = op /\ calls[i].button = button})

LeftClickEmitted == Count("click", "left") > 0
RightClickEmitted == Count("click", "right") > 0
ScrollEmitted == Count("scroll", "") > 0
ScrollCall == calls[CHOOSE i \in DOMAIN calls : calls[i].op = "scroll"]

Centre == [x |-> (screen_width * CursorScale) \div 2,
           y |-> (screen_height * CursorScale) \div 2]

----------------------------------------------------------------------------
\* C1: a left click fires in an update exactly when the thumb-index distance
\* of that frame is below the left threshold and the distance of the
\* preceding update call was not (or there was none); an update emits at
\* most one left click, so a held pinch never fires again.
C1_LeftClickEdge ==
    [][hand_result' # <<>> =>
          /\ LeftClickEmitted' <=>
                 /\ LeftBelow(hand_result'[1])
                 /\ ~(last_hand # <<>> /\ LeftBelow(last_hand[1]))
          /\ Count("click", "left")' <= 1]_vars

\* a pinch held over at least two updates, the later one silent
C1_Witness ==
    /\ UpdateRan
    /\ nupdates >= 3
    /\ LeftBelow(hand)
    /\ left_click_latched
    /\ ~LeftClickEmitted

\* C2: an update whose thumb-index distance is below the left threshold
\* emits no scroll and does not run scroll detection (the history is left
\* empty), also with both fingers extended; no update emits a left click
\* and a scroll together.
C2_ScrollGateExclusive ==
    /\ (UpdateRan /\ LeftBelow(hand)) =>
           (~ScrollEmitted /\ scroll_history = <<>>)
    /\ ~(LeftClickEmitted /\ ScrollEmitted)

\* a left click with both fingers extended
C2_Witness ==
    /\ UpdateRan
    /\ LeftBelow(hand)
    /\ BothExtended(hand)
    /\ LeftClickEmitted

\* a point of [0, screen_width] x [0, screen_height]
InScreen(p) ==
    /\ 0 <= p.x /\ p.x <= screen_width * CursorScale
    /\ 0 <= p.y /\ p.y <= screen_height * CursorScale

\* C3: the mapped target of every frame and the persisted cursor lie within
\* [0, screen_width] x [0, screen_height], whatever the landmark
\* coordinates, also outside [0, 1].
C3_CursorInScreen ==
    /\ InScreen(prev_cursor)
    /\ last_hand # <<>> =>
           InScreen([x |-> target_x(hand.landmarks[8].x),
                     y |-> target_y(hand.landmarks[8].y)])
    /\ \A i \in DOMAIN calls : calls[i].op = "moveTo" => InScreen(calls[i])

\* updates whose index tip was outside the frame on both axes
C3_Witness ==
    /\ UpdateRan
    /\ nupdates >= 2
    /\ hand.landmarks[8].x < 0
    /\ hand.landmarks[8].y > Unit
    /\ prev_cursor # Centre

\* C4: a right click fires in an update exactly when the thumb-middle
\* distance of that frame is below the right threshold and that of the
\* preceding update call was not; nothing else (left latch, left distance,
\* finger extension, scroll) decides it.
C4_RightClickEdge ==
    [][hand_result' # <<>> =>
          /\ RightClickEmitted' <=>
                 /\ RightBelow(hand_result'[1])
                 /\ ~(last_hand # <<>> /\ RightBelow(last_hand[1]))
          /\ Count("click", "right")' <= 1]_vars

\* a right click while the left pinch is held and both fingers are extended
C4_Witness ==
    /\ UpdateRan
    /\ RightClickEmitted
    /\ LeftBelow(hand)
    /\ ~LeftClickEmitted
    /\ BothExtended(hand)

\* the history old with the sample of frame h appended, the oldest sample
\* dropped when that would exceed 5
C5_Appended(old, h) ==
    LET full == old \o <<h.landmarks[8].y + h.landmarks[12].y>>
    IN IF Len(full) > 5 THEN SubSeq(full, 2, Len(full)) ELSE full

\* C5: after an update whose scroll gate is false the history is empty;
\* after one whose gate is true it is the previous history with the new
\* (index.y + middle.y) / 2 sample appended, the oldest sample dropped when
\* that would exceed 5. The history never holds more than 5 samples.
C5_ScrollHistory ==
    /\ [](Len(scroll_history) <= 5)
    /\ [][hand_result' # <<>> =>
             scroll_history' =
                 IF Gate(hand_result'[1])
                 THEN C5_Appended(scroll_history, hand_result'[1])
                 ELSE <<>>]_vars

\* a sixth consecutive sample has evicted the first
C5_Witness ==
    /\ UpdateRan
    /\ nupdates >= 6
    /\ Len(scroll_history) = 5
    /\ scroll_history[1] # scroll_history[5]

----------------------------------------------------------------------------
\* delta * sensitivity * 100 of the two most recent samples, times HistUnit
Delta == scroll_history[Len(scroll_history) - 1] - scroll_history[Len(scroll_history)]
Product == Delta * scroll_sensitivity * 100

\* scroll detection ran in the latest update, on at least two samples
DetectionRan == UpdateRan /\ Gate(hand) /\ Len(scroll_history) >= 2

\* C6 as stated: the scroll amount is (history[-2] - history[-1]) *
\* sensitivity * 100, positive for upward and negative for downward motion.
C6_Original ==
    (DetectionRan /\ ScrollEmitted) =>
        /\ ScrollCall.amount * HistUnit = Product
        /\ Delta > 0 => ScrollCall.amount > 0
        /\ Delta < 0 => ScrollCall.amount < 0

\* C6 amended: the scroll amount is (history[-2] - history[-1]) *
\* sensitivity * 100 truncated toward zero to an integer, computed from the
\* two most recent samples only; an emitted amount is positive for upward
\* motion (average y decreasing) and negative for downward motion.
C6_Truncated ==
    /\ ScrollEmitted => DetectionRan
    /\ (DetectionRan /\ ScrollEmitted) =>
        LET a == ScrollCall.amount
        IN /\ Product >= 0 => (a >= 0 /\ a * HistUnit <= Product
                                      /\ Product < (a + 1) * HistUnit)
           /\ Product <= 0 => (a <= 0 /\ (a - 1) * HistUnit < Product
                                      /\ Product <= a * HistUnit)
           /\ Delta > 0 => a > 0
           /\ Delta < 0 => a < 0

\* a downward scroll whose product is no integer, from a history of >= 3
C6_Witness ==
    /\ DetectionRan
    /\ ScrollEmitted
    /\ Len(scroll_history) >= 3
    /\ Delta < 0
    /\ Product % HistUnit # 0

\* C7 as stated: with at least two samples the scroll is suppressed when
\* |delta * sensitivity * 100| <= 1 and emitted when it exceeds 1.
C7_Original ==
    DetectionRan => (ScrollEmitted <=> abs(Product) > HistUnit)

\* C7 amended: with at least two samples the scroll is suppressed when the
\* integer amount int(delta * sensitivity * 100) is at most 1 in absolute
\* value, that is when |delta * sensitivity * 100| < 2, and emitted
\* otherwise; in both cases the new sample has been appended.
C7_NoiseSuppressed ==
    DetectionRan =>
        /\ ScrollEmitted <=> abs(Product) >= 2 * HistUnit
        /\ Count("scroll", "") <= 1
        /\ scroll_history[Len(scroll_history)] * 2 * Unit =
               (hand.landmarks[8].y + hand.landmarks[12].y) * HistUnit

\* a product strictly between 1 and 2, suppressed, its sample kept
C7_Witness ==
    /\ DetectionRan
    /\ abs(Product) > HistUnit
    /\ abs(Product) < 2 * HistUnit
    /\ ~ScrollEmitted
    /\ scroll_history[Len(scroll_history)] # scroll_history[Len(scroll_history) - 1]

\* the error e2 after a call is (1 - smoothing_factor) times the error e
\* before it: no larger, and of the same sign
C8_Contracts(e, e2) ==
    /\ e % smoothing_factor.den = 0
    /\ e2 = (e \div smoothing_factor.den) * (smoothing_factor.den - smoothing_factor.num)
    /\ e >= 0 => (0 <= e2 /\ e2 <= e)
    /\ e <= 0 => (e <= e2 /\ e2 <= 0)

\* (1 - smoothing_factor)^n times the error e0
C8_Remaining(e0, n) ==
    (e0 \div Pow(smoothing_factor.den, n))
        * Pow(smoothing_factor.den - smoothing_factor.num, n)

\* C8: feeding the same index-tip position again, the distance between the
\* cursor and the mapped target is multiplied by 1 - smoothing_factor on
\* each axis at every call: it shrinks monotonically, keeps its sign (no
\* overshoot), and after n calls from the start it is (1 - factor)^n times
\* the initial distance, so it falls below any epsilon > 0.
C8_SmoothingConverges ==
    /\ [][(/\ hand_result' # <<>>
           /\ \/ last_hand = <<>>
              \/ last_hand[1].landmarks[8] = hand_result'[1].landmarks[8]) =>
             LET tx == target_x(hand_result'[1].landmarks[8].x)
                 ty == target_y(hand_result'[1].landmarks[8].y)
             IN /\ C8_Contracts(prev_cursor.x - tx, prev_cursor'.x - tx)
                /\ C8_Contracts(prev_cursor.y - ty, prev_cursor'.y - ty)]_vars
    /\ [](nupdates > 0 =>
             LET tx == target_x(hand.landmarks[8].x)
                 ty == target_y(hand.landmarks[8].y)
             IN /\ prev_cursor.x - tx = C8_Remaining(Centre.x - tx, nupdates)
                /\ prev_cursor.y - ty = C8_Remaining(Centre.y - ty, nupdates))

\* five calls with one position: under a quarter of the distance is left
C8_Witness ==
    /\ UpdateRan
    /\ nupdates >= 5
    /\ prev_cursor.y # target_y(hand.landmarks[8].y)
    /\ abs(prev_cursor.y - target_y(hand.landmarks[8].y)) * 4
           < abs(Centre.y - target_y(hand.landmarks[8].y))
    /\ abs(prev_cursor.x - target_x(hand.landmarks[8].x)) * 4
           < abs(Centre.x - target_x(hand.landmarks[8].x))

\* C9: a frame without a hand calls no update: cursor, history, latches and
\* mode keep their values and no move, click or scroll is emitted.
C9_NoHandFreezes ==
    [][hand_result' = <<>> =>
          /\ prev_cursor' = prev_cursor
          /\ scroll_history' = scroll_history
          /\ left_click_latched' = left_click_latched
          /\ right_click_latched' = right_click_latched
          /\ current_mode' = current_mode
          /\ calls' = <<>>]_vars

\* no hand after updates that moved the cursor, latched a click and
\* filled the history
C9_Witness ==
    /\ ~UpdateRan
    /\ nupdates >= 2
    /\ calls = <<>>
    /\ prev_cursor # Centre
    /\ (left_click_latched \/ scroll_history # <<>>)

\* p + (t - p) * smoothing_factor
C10_Lerp(p, t) == p + ((t - p) * smoothing_factor.num) \div smoothing_factor.den

\* C10: every update replaces the cursor, on each axis, by
\* lerp(previous, mapped target of the index tip, smoothing_factor) and emits
\* one pointer move to it, first of its calls, whether or not a click or a
\* scroll fires or is engaged in the same call.
C10_CursorAlwaysMoves ==
    [][hand_result' # <<>> =>
          LET tip == hand_result'[1].landmarks[8]
          IN /\ prev_cursor'.x = C10_Lerp(prev_cursor.x, target_x(tip.x))
             /\ prev_cursor'.y = C10_Lerp(prev_cursor.y, target_y(tip.y))
             /\ calls'[1] = MoveTo(prev_cursor'.x, prev_cursor'.y)
             /\ Count("moveTo", "")' = 1]_vars

\* the cursor moved in an update that also fired a left click
C10_Witness ==
    /\ UpdateRan
    /\ nupdates >= 2
    /\ LeftClickEmitted
    /\ calls[1] = MoveTo(prev_cursor.x, prev_cursor.y)
    /\ prev_cursor.x # target_x(hand.landmarks[8].x)
    /\ prev_cursor # Centre

----------------------------------------------------------------------------
\* C11: an update whose index and middle fingers are both extended, whose
\* thumb-index distance is above the left threshold and whose thumb-middle
\* distance is at or above the right threshold is in scroll mode: the
\* sample is appended to the history and the label is Scroll, no click
\* fires, both latches are clear after it, and the cursor has moved by the
\* mapping of the index tip.
C11_ScrollScenario ==
    [][(/\ hand_result' # <<>>
        /\ BothExtended(hand_result'[1])
        /\ left_pinch_dist(hand_result'[1]).sq
               > left_pinch_threshold * left_pinch_threshold
        /\ right_pinch_dist(hand_result'[1]).sq
               >= right_pinch_threshold * right_pinch_threshold) =>
          LET tip == hand_result'[1].landmarks[8]
              sample == tip.y + hand_result'[1].landmarks[12].y
          IN /\ scroll_history' # <<>>
             /\ scroll_history'[Len(scroll_history')] = sample
             /\ Len(scroll_history') = IF Len(scroll_history) < 5
                                       THEN Len(scroll_history) + 1 ELSE 5
             /\ current_mode' = "Scroll"
             /\ ~LeftClickEmitted' /\ ~RightClickEmitted'
             /\ ~left_click_latched' /\ ~right_click_latched'
             /\ prev_cursor'.x = C10_Lerp(prev_cursor.x, target_x(tip.x))
             /\ prev_cursor'.y = C10_Lerp(prev_cursor.y, target_y(tip.y))
             /\ calls'[1] = MoveTo(prev_cursor'.x, prev_cursor'.y)]_vars

\* the scenario right after a frame that had both pinches engaged
C11_Witness ==
    /\ UpdateRan
    /\ nupdates >= 2
    /\ BothExtended(hand)
    /\ ~LeftBelow(hand) /\ ~RightBelow(hand)
    /\ left_pinch_dist(hand).sq > left_pinch_threshold * left_pinch_threshold
    /\ current_mode = "Scroll"
    /\ Len(scroll_history) = 1
    /\ ~left_click_latched /\ ~right_click_latched

----------------------------------------------------------------------------
(* Error handling *)

\* the active region of the camera frame has no width or no height
ActiveRegionEmpty ==
    \/ 2 * self_margin >= camera_width
    \/ 2 * self_margin >= camera_height

\* C12: a controller constructed with a margin that leaves no active
\* region (2*margin >= camera_width or 2*margin >= camera_height) is
\* rejected at construction: it processes no frame, and no update call
\* reaches a division by zero in the cursor mapping.
C12_Stated ==
    ActiveRegionEmpty => (nupdates = 0 /\ error # "ZeroDivisionError")

\* a HandFrame that is not 21 LandmarkPoints
Malformed(h) ==
    \/ DOMAIN h.landmarks # 0..20
    \/ \E i \in DOMAIN h.landmarks : IsNone(h.landmarks[i])

\* C13: an update given a malformed HandFrame (fewer than 21 landmarks, or
\* a missing entry) signals an error, emits no move, click or scroll and
\* leaves the controller state unchanged; the error is taken as signalled
\* whatever its type.
C13_Stated ==
    [][(nupdates' = nupdates + 1 /\ Malformed(last_hand'[1])) =>
          (error' # "" /\ calls' = <<>> /\ UNCHANGED ctrl)]_vars

\* C14: when an Input Injector call fails during an update, SmoothedCursor,
\* ScrollHistory and both click latches hold after the failed update the
\* values that a successful update of the same frame would have produced.
C14_Stated ==
    [][error' = "InjectorError" =>
          LET h == last_hand'[1]
          IN /\ prev_cursor' = cursor_next(h, prev_cursor)
             /\ scroll_history' = history_next(h, scroll_history)
             /\ left_click_latched' =
                    latch_next(left_pinch_dist(h), left_pinch_threshold,
                               left_click_latched)
             /\ right_click_latched' =
                    latch_next(right_pinch_dist(h), right_pinch_threshold,
                               right_click_latched)]_vars

----------------------------------------------------------------------------
(* Algebraic laws of clamp *)

\* C15: for all v and lo <= hi, clamp(v, lo, hi) lies in [lo, hi], equals
\* v when v is already in [lo, hi], and clamping the result again gives
\* the same result.
C15_ClampLaws ==
    /\ probe.stage >= 1 =>
          /\ probe.lo <= probe.r1 /\ probe.r1 <= probe.hi
          /\ (probe.lo <= probe.v /\ probe.v <= probe.hi) => probe.r1 = probe.v
    /\ probe.stage = 2 => probe.r2 = probe.r1

C15_Witness ==
    /\ probe.stage = 2
    /\ probe.lo < probe.hi
    /\ probe.v > probe.hi
    /\ probe.r1 = probe.hi
    /\ probe.r2 = probe.hi

----------------------------------------------------------------------------
(* Gestures within one update *)

\* C16: scroll handling runs in an update (a sample is in the history
\* afterwards) only when both fingers are extended and neither pinch
\* distance is below its threshold, and a scroll is never emitted in the
\* same update call as a right click.
C16_Stated ==
    UpdateRan =>
        /\ scroll_history # <<>> =>
              (BothExtended(hand) /\ ~LeftBelow(hand) /\ ~RightBelow(hand))
        /\ ~(ScrollEmitted /\ RightClickEmitted)

\* the label the claim C17 gives to an update step
C17_Label ==
    LET h == last_hand'[1]
    IN IF RightClickEmitted' THEN "Right Click"
       ELSE IF LeftClickEmitted' THEN "Left Click"
       ELSE IF Gate(h) THEN "Scroll"
       ELSE IF ~LeftBelow(h) /\ ~RightBelow(h) /\ ~BothExtended(h) THEN "Move"
       ELSE current_mode

C18_LatchIsEngagement ==
    (UpdateRan /\ error = "") =>
        /\ left_click_latched <=> LeftBelow(hand)
        /\ right_click_latched <=> RightBelow(hand)

\* the left distance equal to its threshold, the right pinch held
C18_Witness ==
    /\ UpdateRan /\ error = ""
    /\ nupdates >= 2
    /\ left_pinch_dist(hand).sq = left_pinch_threshold * left_pinch_threshold
    /\ ~left_click_latched
    /\ RightBelow(hand) /\ right_click_latched /\ ~RightClickEmitted

\* the sample a frame contributes to the scroll history
C19_Sample(h) == avg_y(h.landmarks[8].y, h.landmarks[12].y)

\* C19: an update emits a scroll only if the gate was active in it and in
\* the update call before it; the first update of the run and the first
\* update after one with the gate false leave a single sample in the
\* history and emit no scroll. Frames without a hand are not update calls:
\* when the gate is active in two successive updates, the two newest
\* samples are theirs, whatever number of no-hand frames lies between.
C19_ScrollNeedsTwoGatedUpdates ==
    [][nupdates' = nupdates + 1 =>
          LET h == last_hand'[1]
              first == last_hand = <<>>
          IN /\ ScrollEmitted' => (~first /\ Gate(last_hand[1]) /\ Gate(h))
             /\ (Gate(h) /\ (first \/ ~Gate(last_hand[1]))) =>
                    (scroll_history' = <<C19_Sample(h)>> /\ ~ScrollEmitted')
             /\ (Gate(h) /\ ~first /\ Gate(last_hand[1])) =>
                    LET n == Len(scroll_history')
                    IN /\ n >= 2
                       /\ scroll_history'[n] = C19_Sample(h)
                       /\ scroll_history'[n - 1] = C19_Sample(last_hand[1])]_vars

\* a scroll emitted by the second of two gated updates, right after an
\* update with the gate false
C19_Witness ==
    /\ UpdateRan
    /\ nupdates >= 3
    /\ Gate(hand)
    /\ ScrollEmitted
    /\ Len(scroll_history) = 2

============================================================================
